---------------------------- MODULE Spec2Model ----------------------------
(***************************************************************************)
(* A model of scripts/app.js of the HDR viewer: the Radiance HDR parser    *)
(* (parseRadianceHDR), the renderer (renderHDR) and the page's load        *)
(* handlers (fetchHDR, handleFile, showError).                             *)
(*                                                                         *)
(* Text is modelled at the byte level: a file is a sequence of bytes       *)
(* 0..255, a line is the sequence of the (ASCII) codes of its characters.  *)
(* Offsets are 0-based as in the code; sequences are 1-based, so the byte  *)
(* at offset o of bs is bs[o + 1].                                         *)
(***************************************************************************)
EXTENDS Integers, Sequences, FiniteSets, TLC

(***************************************************************************)
(* Bounds of the model.                                                    *)
(***************************************************************************)
\* Largest extent (width or height) written in a well-formed resolution line.
MaxDim == 3
\* Offsets at or past the end of the buffer all read `undefined`; the model
\* folds the offsets beyond Len(bytes) + MaxPast back onto Len(bytes).
MaxPast == 4
\* Number of file-picker / drop events the model follows.
MaxUserLoads == 1

(***************************************************************************)
(* JavaScript values.                                                      *)
(***************************************************************************)
\* What bytes[i] yields when i is not an index of the typed array.
undefined == -1

\* A JS value that is undefined, NaN or a number (let width, height; parseInt).
Undef == [t |-> "undefined", v |-> 0]
NaN == [t |-> "NaN", v |-> 0]
Num(n) == [t |-> "number", v |-> n]

\* ToBoolean: undefined, NaN and 0 are falsy (the tests !width, a || b).
Truthy(j) == j.t = "number" /\ j.v # 0

\* a || b
JsOr(a, b) == IF Truthy(a) THEN a ELSE b

\* Storing a value into a Uint8Array element: undefined becomes NaN becomes 0.
ToUint8(b) == IF b = undefined THEN 0 ELSE b % 256

\* ToInt32 of a byte read, as the operand of << and |: undefined becomes 0.
ToInt32(b) == IF b = undefined THEN 0 ELSE b

(***************************************************************************)
(* Strings, as sequences of character codes.                               *)
(***************************************************************************)
\* The white space String.prototype.trim and the regex class \s remove (ASCII).
IsWhite(ch) == ch \in {9, 10, 11, 12, 13, 32}

IsDigit(ch) == ch >= 48 /\ ch <= 57

RECURSIVE TrimLeft(_)
TrimLeft(s) ==
    IF s # <<>> /\ IsWhite(Head(s)) THEN TrimLeft(Tail(s)) ELSE s

RECURSIVE TrimRight(_)
TrimRight(s) ==
    IF s # <<>> /\ IsWhite(s[Len(s)]) THEN TrimRight(SubSeq(s, 1, Len(s) - 1)) ELSE s

\* String.prototype.trim
Trim(s) == TrimRight(TrimLeft(s))

\* String.prototype.startsWith
StartsWith(s, p) == Len(s) >= Len(p) /\ SubSeq(s, 1, Len(p)) = p

\* Index (1-based) of the first ch in s at or after position i, or 0.
RECURSIVE IndexOf(_, _, _)
IndexOf(s, ch, i) ==
    IF i > Len(s) THEN 0
    ELSE IF s[i] = ch THEN i
    ELSE IndexOf(s, ch, i + 1)

\* line.split('=')[1] of a line that contains '=' (code 61): the text between
\* the first '=' and the second one (or the end of the line).
SplitEq1(s) ==
    LET a == IndexOf(s, 61, 1)
        b == IndexOf(s, 61, a + 1)
    IN  IF b = 0 THEN SubSeq(s, a + 1, Len(s)) ELSE SubSeq(s, a + 1, b - 1)

\* s.split(/\s+/): the pieces of s between maximal runs of white space
\* ("".split gives one empty piece; white space at either end gives an empty
\* first or last piece).
RECURSIVE SplitWS(_, _)
SplitWS(s, cur) ==
    IF s = <<>> THEN <<cur>>
    ELSE IF IsWhite(Head(s)) THEN <<cur>> \o SplitWS(TrimLeft(s), <<>>)
    ELSE SplitWS(Tail(s), Append(cur, Head(s)))

\* The value of a run of decimal digits at the head of s, after acc.
RECURSIVE DigitsValue(_, _)
DigitsValue(s, acc) ==
    IF s # <<>> /\ IsDigit(Head(s)) THEN DigitsValue(Tail(s), acc * 10 + (Head(s) - 48))
    ELSE acc

\* parseInt(s, 10): leading white space, an optional sign, then the longest
\* run of digits; NaN when there is no digit.
parseInt(s) ==
    LET t == TrimLeft(s)
        neg == t # <<>> /\ Head(t) = 45
        u == IF t # <<>> /\ Head(t) \in {43, 45} THEN Tail(t) ELSE t
    IN  IF u = <<>> \/ ~IsDigit(Head(u)) THEN NaN
        ELSE Num(IF neg THEN 0 - DigitsValue(u, 0) ELSE DigitsValue(u, 0))

\* tok.toUpperCase().includes('X'): the token holds an 'X' or an 'x'.
IncludesUpper(tok, ch) == \E i \in 1..Len(tok) : tok[i] \in {ch, ch + 32}

\* The number of 'd' (code 100) characters at the head of s.
RECURSIVE CountD(_)
CountD(s) == IF s # <<>> /\ Head(s) = 100 THEN 1 + CountD(Tail(s)) ELSE 0

\* resLine.match(/-?\\d+/g) || []: in the regex literal \\ is a literal
\* backslash (code 92), so a match is an optional '-', a backslash and one
\* or more letters d.
RECURSIVE MatchNums(_)
MatchNums(s) ==
    IF s = <<>> THEN <<>>
    ELSE LET m == IF Head(s) = 45 THEN 1 ELSE 0
             r == SubSeq(s, m + 1, Len(s))
             n == IF r # <<>> /\ Head(r) = 92 THEN CountD(Tail(r)) ELSE 0
         IN  IF n > 0 THEN <<SubSeq(s, 1, m + 1 + n)>> \o MatchNums(SubSeq(s, m + n + 2, Len(s)))
             ELSE MatchNums(Tail(s))

(***************************************************************************)
(* The state.                                                              *)
(***************************************************************************)
VARIABLES
    \* parseRadianceHDR: its argument, its locals and where it stands
    bytes,          \* new Uint8Array(buffer)
    offset,         \* let offset
    pc,             \* "script" before the script has run, "idle" when no renderHDR
                    \* call is running, else the place in the call
    format,         \* let format
    resLine,        \* const resLine
    width,          \* let width  (a JS value)
    height,         \* let height (a JS value)
    data,           \* const data = new Float32Array(numPixels * 3)
    scanline,       \* const scanline = new Uint8Array(width * 4)
    y,              \* the row loop's y
    c,              \* the plane loop's c
    x,              \* the column x of the plane being filled
    rowStart,       \* history: the value of offset when row y was entered
    err,            \* the exception thrown, NoError when none
    \* renderHDR's arguments
    call,           \* [name, fromBundle, onError]
    \* the page
    canvas,         \* imageCanvas: [width, height, pixels]
    hdrFileInfo,    \* hdrFileInfo.textContent
    hdrNote,        \* hdrNote.textContent
    imageShellHidden,
    playerShellHidden,
    \* what is in flight
    fetchPending,   \* the fetch of fetchHDR(BUNDLED_PATH, ALLOWED_FILE) has not settled
    readers,        \* the FileReaders that are reading: a sequence of files
    userLoads,      \* number of file-picker / drop events so far
    lastLoad,       \* history: how the most recent load attempt ended
    \* the document
    elements        \* which of #fileInput and #dropzone the page contains

decoderVars == <<bytes, offset, pc, format, resLine, width, height, data, scanline,
                 y, c, x, rowStart, err, call>>
pageVars == <<canvas, hdrFileInfo, hdrNote, imageShellHidden, playerShellHidden>>
flightVars == <<fetchPending, readers, userLoads>>
vars == <<decoderVars, pageVars, flightVars, lastLoad, elements>>

(***************************************************************************)
(* parseRadianceHDR, as pure pieces.                                       *)
(***************************************************************************)
\* bytes[o]
At(bs, o) == IF o >= 0 /\ o < Len(bs) THEN bs[o + 1] ELSE undefined

\* readLine's scan: the first offset at or after o that holds a newline
\* (0x0a), or the end of the buffer (o itself when o is already past it).
RECURSIVE LineEnd(_, _)
LineEnd(bs, o) ==
    IF o < Len(bs) /\ bs[o + 1] # 10 THEN LineEnd(bs, o + 1) ELSE o

\* readLine(): the trimmed line at o and the offset after its newline.
\* (subarray clamps to the buffer; the decoder is given ASCII.)
readLine(bs, o) ==
    LET e == LineEnd(bs, o)
    IN  [line |-> Trim(IF o < Len(bs) THEN SubSeq(bs, o + 1, e) ELSE <<>>),
         offset |-> e + 1]

\* The literals the parser compares with.
MagicRadiance == <<35, 63, 82, 65, 68, 73, 65, 78, 67, 69>>                  \* "#?RADIANCE"
MagicRGBE == <<35, 63, 82, 71, 66, 69>>                                      \* "#?RGBE"
FormatKey == <<70, 79, 82, 77, 65, 84, 61>>                                  \* "FORMAT="
RleRgbe == <<51, 50, 45, 98, 105, 116, 95, 114, 108, 101, 95, 114, 103, 98, 101>>  \* "32-bit_rle_rgbe"

\* The magic test of lines 157-159.
magicAccepted(line) == StartsWith(line, MagicRadiance) \/ StartsWith(line, MagicRGBE)

\* Line 165: what a line of the variable block does to format.
formatAfter(line, fmt) == IF StartsWith(line, FormatKey) THEN SplitEq1(line) ELSE fmt

\* formatAccepted testing the first two characters, "32", alone.
formatAcceptedByPrefix(fmt) == StartsWith(fmt, <<51, 50>>)

\* Line 167: the format test.
formatAccepted(fmt) == fmt = RleRgbe

\* tokenLoop with the extents taken by position, the first number as the
\* height and the next as the width, whatever the axis letters say.
RECURSIVE tokenLoopByPosition(_, _, _, _)
tokenLoopByPosition(tokens, i, w, h) ==
    IF i >= Len(tokens) - 1 THEN [width |-> w, height |-> h]
    ELSE LET val == parseInt(tokens[i + 2])
         IN  IF val.t = "NaN" THEN tokenLoopByPosition(tokens, i + 1, w, h)
             ELSE IF h.t = "undefined" THEN tokenLoopByPosition(tokens, i + 1, w, val)
             ELSE tokenLoopByPosition(tokens, i + 1, val, h)

\* Lines 172-177: the loop over the token pairs, from index i (0-based) on.
RECURSIVE tokenLoop(_, _, _, _)
tokenLoop(tokens, i, w, h) ==
    IF i >= Len(tokens) - 1 THEN [width |-> w, height |-> h]
    ELSE LET val == parseInt(tokens[i + 2])
             tok == tokens[i + 1]
         IN  IF val.t = "NaN" THEN tokenLoop(tokens, i + 1, w, h)
             ELSE tokenLoop(tokens, i + 1,
                            IF IncludesUpper(tok, 88) THEN val ELSE w,
                            IF IncludesUpper(tok, 89) THEN val ELSE h)

\* Lines 178-185: the fallback on the numbers the regex finds.
resolutionFallback(line, wh) ==
    IF Truthy(wh.width) /\ Truthy(wh.height) THEN wh
    ELSE LET nums == MatchNums(line)
         IN  IF Len(nums) >= 2
             THEN [height |-> JsOr(wh.height, parseInt(nums[1])),
                   width |-> JsOr(wh.width, parseInt(nums[2]))]
             ELSE wh

\* Line 186: the test that accepts the extents.
resolutionAccepted(wh) == Truthy(wh.width) /\ Truthy(wh.height)

\* hasMarker testing the first byte alone.
hasMarkerFirstByte(bs, o) == At(bs, o) = 2

\* Lines 197-199: the test of a row's first two bytes.
hasMarker(bs, o) == At(bs, o) = 2 /\ At(bs, o + 1) = 2

\* scanWidth with the two bytes in little-endian order.
scanWidthLittleEndian(bs, o) == ToInt32(At(bs, o + 3)) * 256 + ToInt32(At(bs, o + 2))

\* scanWidth with the high byte left out.
scanWidthLowByte(bs, o) == ToInt32(At(bs, o + 3))

\* Line 200: (bytes[offset + 2] << 8) | bytes[offset + 3]
scanWidth(bs, o) == ToInt32(At(bs, o + 2)) * 256 + ToInt32(At(bs, o + 3))

\* Line 208: a control byte above 128 starts a run (undefined > 128 is false).
isRun(val) == val > 128

\* Lines 209 and 213: the number of columns a control byte announces; the
\* loop bound i < undefined is false, so a missing control byte fills none.
spanCount(val) == IF isRun(val) THEN val - 128 ELSE IF val = undefined THEN 0 ELSE val

\* Lines 210-214: the bytes consumed by the span whose control byte is val.
spanBytes(val) == IF isRun(val) THEN 2 ELSE 1 + spanCount(val)

\* spanValue with a literal's bytes taken one offset early.
spanValueEarly(bs, o, i) ==
    IF isRun(At(bs, o)) THEN ToUint8(At(bs, o + 1)) ELSE ToUint8(At(bs, o + i))

\* Lines 211 and 214: the value stored in column x + i by the span at offset o.
spanValue(bs, o, i) ==
    IF isRun(At(bs, o)) THEN ToUint8(At(bs, o + 1)) ELSE ToUint8(At(bs, o + 1 + i))

\* spanWrite leaving an element alone when the value to store is 0.
spanWriteSkippingZeros(bs, o, sl, w, cc, xx) ==
    LET n == spanCount(At(bs, o))
        first == cc * w + xx
    IN  [k \in 1..Len(sl) |->
            IF k - 1 >= first /\ k - 1 < first + n /\ spanValue(bs, o, k - 1 - first) # 0
            THEN spanValue(bs, o, k - 1 - first)
            ELSE sl[k]]

\* Lines 207-215: one turn of the while (x < width) loop on plane cc at
\* column xx: scanline[cc * width + x++] = ... for each of the span's columns.
\* An index past the end of the typed array is not written.
spanWrite(bs, o, sl, w, cc, xx) ==
    LET n == spanCount(At(bs, o))
        first == cc * w + xx
    IN  [k \in 1..Len(sl) |->
            IF k - 1 >= first /\ k - 1 < first + n THEN spanValue(bs, o, k - 1 - first)
            ELSE sl[k]]

(***************************************************************************)
(* Radiance samples.  A sample r * 2^(e - 128) / 256 is kept exactly, as   *)
(* the odd mantissa m and the exponent p of m * 2^p (zero is m = 0,        *)
(* p = 0); a byte times a power of two in this range is exact in a         *)
(* Float32Array element.                                                   *)
(***************************************************************************)
Zero == [m |-> 0, p |-> 0]

RECURSIVE Dyadic(_, _)
Dyadic(m, p) ==
    IF m = 0 THEN Zero
    ELSE IF m % 2 = 0 THEN Dyadic(m \div 2, p + 1)
    ELSE [m |-> m, p |-> p]

\* radiance without the case of the exponent byte 0.
radianceNoZeroCase(r, e) == Dyadic(r, e - 136)

\* Lines 225-234: one channel of a pixel with mantissa byte r and exponent e.
radiance(r, e) == IF e = 0 THEN Zero ELSE Dyadic(r, e - 136)

\* Lines 219-235: row yy of data from the four planes of the scanline.
convertRow(dt, sl, w, yy) ==
    [k \in 1..Len(dt) |->
        LET i == k - 1
            px == i \div 3
            ch == i % 3
        IN  IF px \div w = yy
            THEN radiance(sl[ch * w + (px % w) + 1], sl[3 * w + (px % w) + 1])
            ELSE dt[k]]

\* new Float32Array(n) and new Uint8Array(n), zero-filled.
zeros(n, z) == [k \in 1..n |-> z]

(***************************************************************************)
(* The files the model decodes: the argument of parseRadianceHDR (line     *)
(* 143) ranges over headers and scanline data built here, well formed and  *)
(* malformed.                                                              *)
(***************************************************************************)
LF == <<10>>

\* The decimal digits of n >= 0.
RECURSIVE Digits(_)
Digits(n) == IF n < 10 THEN <<48 + n>> ELSE Digits(n \div 10) \o <<48 + (n % 10)>>

\* The decimal text of an extent that may be negative.
Extent(n) == IF n < 0 THEN <<45>> \o Digits(0 - n) ELSE Digits(n)

\* "-Y h +X w" and "+X w -Y h"
ResYX(h, w) == <<45, 89, 32>> \o Extent(h) \o <<32, 43, 88, 32>> \o Extent(w)
ResXY(w, h) == <<43, 88, 32>> \o Extent(w) \o <<32, 45, 89, 32>> \o Extent(h)

\* A header: the magic line, the variable block (its lines, each with its
\* newline), the empty line and the resolution line.
Header(magic, block, res) == magic \o LF \o block \o LF \o res \o LF

FormatLine == FormatKey \o RleRgbe \o LF

GoodHeader(res) == Header(MagicRadiance, FormatLine, res)

Dims == 1..MaxDim

\* The byte of plane p (0..3: R, G, B, E) at column col of row row in the
\* files' pictures: every plane, column and row has a value of its own.
PlaneVal(p, col, row) ==
    IF p = 3 THEN 127 + ((col + row) % 3)
    ELSE 16 * (p + 1) + 4 * row + col + 1

PlaneOf(p, w, row) == [i \in 1..w |-> PlaneVal(p, i - 1, row)]

\* The new-format marker of a row of width w.
Marker(w) == <<2, 2, w \div 256, w % 256>>

\* Encodings of a plane whose content is s.  The first five fill exactly
\* Len(s) columns; "runover" and "litover" announce one column too many.
GoodKinds == {"lit", "run", "split", "runlit", "zero", "runzero"}
OverKinds == {"runover", "litover"}

Enc(kind, s) ==
    CASE kind = "lit" -> <<Len(s)>> \o s
      [] kind = "run" -> <<128 + Len(s), s[1]>>
      [] kind = "runzero" -> <<128 + Len(s), 0>>
      [] kind = "split" -> <<1, s[1]>> \o (IF Len(s) > 1 THEN <<Len(s) - 1>> \o Tail(s) ELSE <<>>)
      [] kind = "runlit" -> <<129, s[1]>> \o (IF Len(s) > 1 THEN <<Len(s) - 1>> \o Tail(s) ELSE <<>>)
      [] kind = "zero" -> <<0, Len(s)>> \o s
      [] kind = "runover" -> <<128 + Len(s) + 1, s[1]>>
      [] kind = "litover" -> <<Len(s) + 1>> \o s \o <<s[1] + 1>>

\* A row whose plane p is encoded as kind and whose other planes are literals.
Row(w, row, p, kind) ==
    Marker(w) \o Enc(IF p = 0 THEN kind ELSE "lit", PlaneOf(0, w, row))
              \o Enc(IF p = 1 THEN kind ELSE "lit", PlaneOf(1, w, row))
              \o Enc(IF p = 2 THEN kind ELSE "lit", PlaneOf(2, w, row))
              \o Enc(IF p = 3 THEN kind ELSE "lit", PlaneOf(3, w, row))

\* A row that does not start with the marker of width w.
MarkerKinds == {"flat", "second", "width", "high"}

RECURSIVE FlatRow(_, _, _)
FlatRow(w, row, col) ==
    IF col >= w THEN <<>>
    ELSE <<PlaneVal(0, col, row), PlaneVal(1, col, row), PlaneVal(2, col, row), PlaneVal(3, col, row)>>
         \o FlatRow(w, row, col + 1)

UnmarkedRow(w, row, kind) ==
    CASE kind = "flat" -> FlatRow(w, row, 0)
      [] kind = "second" -> <<2, 1>> \o SubSeq(Row(w, row, 0, "lit"), 3, Len(Row(w, row, 0, "lit")))
      [] kind = "width" -> Marker(w + 1) \o SubSeq(Row(w, row, 0, "lit"), 5, Len(Row(w, row, 0, "lit")))
      [] kind = "high" -> <<2, 2, 1, w>> \o SubSeq(Row(w, row, 0, "lit"), 5, Len(Row(w, row, 0, "lit")))

\* The scanline data of h rows from row i on; row r is the special one.
RECURSIVE Rows(_, _, _, _, _)
Rows(w, h, i, r, special) ==
    IF i >= h THEN <<>>
    ELSE (IF i = r THEN special ELSE Row(w, i, 0, "lit")) \o Rows(w, h, i + 1, r, special)

\* The plain file of a w by h picture.
PlainFile(w, h) == GoodHeader(ResYX(h, w)) \o Rows(w, h, 0, h, <<>>)

\* Files that differ in the order of the resolution line's axes.
ResolutionFiles ==
    UNION {{GoodHeader(res) \o Rows(wh[1], wh[2], 0, wh[2], <<>>) :
              res \in {ResYX(wh[2], wh[1]), ResXY(wh[1], wh[2])}} : wh \in Dims \X Dims}

\* Files one of whose planes is encoded in one of the ways of Enc.
EncodedFilesOf(kinds) ==
    UNION {{GoodHeader(ResYX(wh[2], wh[1]))
                \o Rows(wh[1], wh[2], 0, r, Row(wh[1], r, p, k)) :
              r \in 0..(wh[2] - 1), p \in 0..3, k \in kinds} : wh \in Dims \X Dims}

\* Files one of whose rows lacks the marker.
UnmarkedFiles ==
    UNION {{GoodHeader(ResYX(wh[2], wh[1]))
                \o Rows(wh[1], wh[2], 0, r, UnmarkedRow(wh[1], r, k)) :
              r \in 0..(wh[2] - 1), k \in MarkerKinds} : wh \in Dims \X Dims}

\* Every proper prefix of the plain 2 by 2 file: truncated headers and rows.
TruncatedFiles ==
    {SubSeq(PlainFile(2, 2), 1, n) : n \in 0..(Len(PlainFile(2, 2)) - 1)}

\* Other magic lines, with the 1 by 1 picture.
NotRad == <<78, 79, 84, 82, 65, 68>>                                         \* "NOTRAD"
MagicFiles ==
    {Header(m, FormatLine, ResYX(1, 1)) \o Rows(1, 1, 0, 1, <<>>) :
        m \in {MagicRGBE, NotRad, <<32>> \o MagicRadiance \o <<32, 13>>}}

\* Other variable blocks, with the 1 by 1 picture.
RleXyze == <<51, 50, 45, 98, 105, 116, 95, 114, 108, 101, 95, 120, 121, 122, 101>>  \* "32-bit_rle_xyze"
Exposure == <<69, 88, 80, 79, 83, 85, 82, 69, 61, 49>>                       \* "EXPOSURE=1"
Blocks ==
    {<<>>,                                                     \* no FORMAT line
     FormatKey \o RleXyze \o LF,                               \* FORMAT=32-bit_rle_xyze
     FormatKey \o LF,                                          \* FORMAT=
     FormatKey \o RleRgbe \o <<61, 120>> \o LF,                \* FORMAT=32-bit_rle_rgbe=x
     FormatKey \o RleRgbe \o <<120>> \o LF,                    \* FORMAT=32-bit_rle_rgbex
     Exposure \o LF \o FormatLine,                             \* EXPOSURE=1, then FORMAT
     FormatKey \o RleRgbe \o <<13>> \o LF,                     \* FORMAT line ending in CR LF
     FormatKey \o RleXyze \o LF \o FormatLine}                 \* two FORMAT lines
BlockFiles ==
    {Header(MagicRadiance, b, ResYX(1, 1)) \o Rows(1, 1, 0, 1, <<>>) : b \in Blocks}

\* Other resolution lines, with the 1 by 1 picture.
ResLines ==
    {<<45, 89, 32, 49>>,                                       \* "-Y 1"
     <<43, 88, 32, 49>>,                                       \* "+X 1"
     <<>>,                                                     \* ""
     ResYX(0, 1), ResYX(1, 0), ResYX(-1, 1), ResYX(1, -1), ResYX(-1, -1),
     <<45, 89, 32, 97, 32, 43, 88, 32, 49>>,                   \* "-Y a +X 1"
     <<45, 121, 32, 49, 32, 43, 120, 32, 49>>,                 \* "-y 1 +x 1"
     <<92, 100, 32, 45, 92, 100>>,                             \* "\d -\d"
     <<45, 89, 32, 49, 32, 92, 100, 32, 92, 100>>}             \* "-Y 1 \d \d"
ResLineFiles ==
    {GoodHeader(res) \o Rows(1, 1, 0, 1, <<>>) : res \in ResLines}

\* 1 by 1 pictures at the ends of the exponent's range: R, G, B, E.
BrightPixels ==
    {<<255, 1, 128, 1>>, <<255, 1, 128, 255>>, <<255, 1, 128, 0>>, <<200, 100, 50, 136>>}
BrightFiles ==
    {GoodHeader(ResYX(1, 1)) \o Marker(1) \o <<1, px[1], 1, px[2], 1, px[3], 1, px[4]>> :
        px \in BrightPixels}

Files ==
    ResolutionFiles \cup EncodedFilesOf(GoodKinds \cup OverKinds) \cup UnmarkedFiles
        \cup TruncatedFiles \cup MagicFiles \cup BlockFiles \cup ResLineFiles
        \cup BrightFiles

(***************************************************************************)
(* Errors and the page's texts.                                            *)
(***************************************************************************)
NoError == [name |-> "", message |-> "", arg |-> <<>>]
\* new Error(`${message}${arg}`)
Error(message, arg) == [name |-> "Error", message |-> message, arg |-> arg]
\* What new Float32Array(n) and new Uint8Array(n) throw for n < 0.
RangeError == [name |-> "RangeError", message |-> "Invalid typed array length", arg |-> <<>>]

ALLOWED_FILE == "HDR_041_Path_Ref.hdr"

\* A textContent: a fixed text and, for the fetch error, the err.message in it.
Text(t, e) == [text |-> t, err |-> e]
NoText == Text("", NoError)

\* hdrFileInfo.textContent = `${name} — ${width}×${height}, ${mb} MB`
NoInfo == [name |-> "", width |-> 0, height |-> 0, tenthsMB |-> 0]
\* (byteLength / (1024 * 1024)).toFixed(1), in tenths
tenthsMB(byteLength) == (byteLength * 20 + 1048576) \div 2097152
FileInfo(name, w, h, byteLength) ==
    [name |-> name, width |-> w, height |-> h, tenthsMB |-> tenthsMB(byteLength)]

\* The canvas element before any script has sized it (the HTML default).
InitialCanvas == [width |-> 300, height |-> 150, pixels |-> <<>>]

NoCall == [name |-> "", fromBundle |-> FALSE, caught |-> FALSE]

(***************************************************************************)
(* Exact arithmetic on naturals too large for a machine integer: a number  *)
(* is the sequence of its base-10000 digits, least significant first,      *)
(* without leading zeros (zero is <<>>).                                   *)
(***************************************************************************)
RECURSIVE BigOf(_)
BigOf(n) == IF n = 0 THEN <<>> ELSE <<n % 10000>> \o BigOf(n \div 10000)

RECURSIVE BigAdd(_, _, _)
BigAdd(a, b, carry) ==
    IF a = <<>> /\ b = <<>> THEN (IF carry = 0 THEN <<>> ELSE <<carry>>)
    ELSE LET t == (IF a = <<>> THEN 0 ELSE Head(a)) + (IF b = <<>> THEN 0 ELSE Head(b)) + carry
         IN  <<t % 10000>> \o BigAdd(IF a = <<>> THEN <<>> ELSE Tail(a),
                                     IF b = <<>> THEN <<>> ELSE Tail(b), t \div 10000)

\* a * k + carry, for a digit k
RECURSIVE BigScale(_, _, _)
BigScale(a, k, carry) ==
    IF a = <<>> THEN BigOf(carry)
    ELSE LET t == Head(a) * k + carry
         IN  <<t % 10000>> \o BigScale(Tail(a), k, t \div 10000)

RECURSIVE BigMul(_, _)
BigMul(a, b) ==
    IF a = <<>> \/ b = <<>> THEN <<>>
    ELSE BigAdd(IF Head(b) = 0 THEN <<>> ELSE BigScale(a, Head(b), 0),
                IF Len(b) = 1 THEN <<>> ELSE <<0>> \o BigMul(a, Tail(b)), 0)

RECURSIVE BigPow(_, _)
BigPow(a, n) == IF n = 0 THEN <<1>> ELSE BigMul(a, BigPow(a, n - 1))

\* -1, 0 or 1 as a is below, equal to or above b
RECURSIVE BigCmpFrom(_, _, _)
BigCmpFrom(a, b, i) ==
    IF i = 0 THEN 0
    ELSE IF a[i] < b[i] THEN -1
    ELSE IF a[i] > b[i] THEN 1
    ELSE BigCmpFrom(a, b, i - 1)

BigCmp(a, b) ==
    IF Len(a) < Len(b) THEN -1
    ELSE IF Len(a) > Len(b) THEN 1
    ELSE BigCmpFrom(a, b, Len(a))

(***************************************************************************)
(* renderHDR's conversion of the radiance samples to display bytes.        *)
(***************************************************************************)
\* tonemapACES(x) for x = m * 2^p, as the fraction num / den of naturals:
\* (x * (2.51 * x + 0.03)) / (x * (2.43 * x + 0.59) + 0.14), with numerator
\* and denominator multiplied by 100 and by 4^(-p) when p < 0.
tonemapACES(s) ==
    LET X == IF s.p >= 0 THEN BigMul(BigOf(s.m), BigPow(<<2>>, s.p)) ELSE BigOf(s.m)
        U == IF s.p >= 0 THEN <<1>> ELSE BigPow(<<2>>, 0 - s.p)
    IN  [num |-> BigMul(X, BigAdd(BigMul(<<251>>, X), BigMul(<<3>>, U), 0)),
         den |-> BigAdd(BigMul(X, BigAdd(BigMul(<<243>>, X), BigMul(<<59>>, U), 0)),
                        BigMul(<<14>>, BigMul(U, U)), 0)]

\* cmpHalf comparing with the integer b instead of b - 1/2, which makes the
\* store truncate.
cmpHalfWhole(b, den5, num5) ==
    BigCmp(BigMul(BigPow(BigOf(2 * b), 11), den5), BigMul(BigPow(<<510>>, 11), num5))

\* How 255 * toSRGB(f) compares with the half-integer b - 1/2, for f in
\* (0, 1): toSRGB(f) = f^(1 / 2.2) = f^(5 / 11), so 255 * f^(5/11) >= b - 1/2
\* exactly when (2b - 1)^11 * den^5 <= 510^11 * num^5.
cmpHalf(b, den5, num5) ==
    BigCmp(BigMul(BigPow(BigOf(2 * b - 1), 11), den5), BigMul(BigPow(<<510>>, 11), num5))

\* The largest b in lo..hi with 255 * toSRGB(f) >= b - 1/2 (it holds at lo).
RECURSIVE searchByte(_, _, _, _)
searchByte(lo, hi, den5, num5) ==
    IF lo = hi THEN lo
    ELSE LET mid == (lo + hi + 1) \div 2
         IN  IF cmpHalf(mid, den5, num5) <= 0 THEN searchByte(mid, hi, den5, num5)
             ELSE searchByte(lo, mid - 1, den5, num5)

\* Lines 113-115 with the store into imgData.data, a Uint8ClampedArray:
\* toSRGB clamps tonemapACES(x) to [0, 1] and raises it to 1 / 2.2; the
\* store of the product with 255 rounds to the nearest integer, a tie to
\* the even one.
toDisplayByte(s) ==
    LET f == tonemapACES(s)
    IN  IF f.num = <<>> THEN 0
        ELSE IF BigCmp(f.num, f.den) >= 0 THEN 255
        ELSE LET den5 == BigPow(f.den, 5)
                 num5 == BigPow(f.num, 5)
                 b == searchByte(0, 255, den5, num5)
             IN  IF b > 0 /\ cmpHalf(b, den5, num5) = 0 /\ b % 2 = 1 THEN b - 1 ELSE b

\* The samples of the files' pictures, and their display bytes computed once.
PictureSamples ==
    {radiance(r, e) : r \in 0..(16 * 3 + 5 * MaxDim), e \in {0, 127, 128, 129}}
PictureBytes == [s \in PictureSamples |-> toDisplayByte(s)]

displayByte(s) == IF s \in PictureSamples THEN PictureBytes[s] ELSE toDisplayByte(s)

\* displayPixels with the pixels in the reverse order.
displayPixelsReversed(dt) ==
    [i \in 1..(Len(dt) \div 3) |->
        LET k == (Len(dt) \div 3) + 1 - i
        IN  <<displayByte(dt[3 * k - 2]), displayByte(dt[3 * k - 1]), displayByte(dt[3 * k]), 255>>]

\* Lines 109-117: the r, g, b, a bytes of every pixel.
displayPixels(dt) ==
    [i \in 1..(Len(dt) \div 3) |->
        <<displayByte(dt[3 * i - 2]), displayByte(dt[3 * i - 1]), displayByte(dt[3 * i]), 255>>]

(***************************************************************************)
(* The initial state: the document has been parsed and the script is about *)
(* to run; the page contains #fileInput and #dropzone or lacks them.       *)
(***************************************************************************)
Init ==
    /\ bytes = <<>> /\ offset = 0 /\ pc = "script" /\ format = <<>> /\ resLine = <<>>
    /\ width = Undef /\ height = Undef /\ data = <<>> /\ scanline = <<>>
    /\ y = 0 /\ c = 0 /\ x = 0 /\ rowStart = 0 /\ err = NoError /\ call = NoCall
    /\ canvas = InitialCanvas
    /\ hdrFileInfo = NoInfo
    /\ hdrNote = NoText
    /\ imageShellHidden = TRUE
    /\ playerShellHidden \in BOOLEAN
    /\ fetchPending = FALSE
    /\ readers = <<>>
    /\ userLoads = 0
    /\ lastLoad = "none"
    /\ elements \in [fileInput : BOOLEAN, dropzone : BOOLEAN]

\* Lines 1-65, the script's top level.  getElementById gives null for an
\* element the page lacks; fileInput.setAttribute (line 20) then throws a
\* TypeError and the script ends there, before fetchHDR is called (line 37)
\* and before any listener is added; dropzone.addEventListener (line 47)
\* throws when #dropzone is absent, after the fetch has been started and the
\* change listener added (lines 37-43) and before the drop listener is
\* (line 60).
RunScript ==
    /\ pc = "script"
    /\ pc' = "idle"
    /\ fetchPending' = elements.fileInput
    /\ UNCHANGED <<bytes, offset, format, resLine, width, height, data, scanline,
                   y, c, x, rowStart, err, call, pageVars, readers, userLoads,
                   lastLoad, elements>>

\* The change listener of lines 40-43 has been added.
changeListening == elements.fileInput

\* The drop listener of lines 60-63 has been added.
dropListening == elements.fileInput /\ elements.dropzone

\* The decoder's locals once a renderHDR call is over.
ResetDecoder ==
    /\ bytes' = <<>> /\ offset' = 0 /\ pc' = "idle" /\ format' = <<>> /\ resLine' = <<>>
    /\ width' = Undef /\ height' = Undef /\ data' = <<>> /\ scanline' = <<>>
    /\ y' = 0 /\ c' = 0 /\ x' = 0 /\ rowStart' = 0 /\ err' = NoError /\ call' = NoCall

(***************************************************************************)
(* The page's handlers.                                                    *)
(***************************************************************************)
\* showError(msg), lines 90-96.  Setting the canvas's width and height to 0
\* leaves it without pixels.
showError(msg) ==
    /\ imageShellHidden' = FALSE
    /\ hdrFileInfo' = NoInfo
    /\ hdrNote' = msg
    /\ canvas' = [width |-> 0, height |-> 0, pixels |-> <<>>]
    /\ UNCHANGED playerShellHidden

\* The entry of renderHDR(arrayBuffer, name, fromBundle): line 100 calls
\* parseRadianceHDR, which starts at lines 144-146.  caught says whether the
\* call stands in fetchHDR's try block.
enterRender(buffer, name, fromBundle, caught) ==
    /\ bytes' = buffer
    /\ offset' = 0
    /\ pc' = "magic"
    /\ call' = [name |-> name, fromBundle |-> fromBundle, caught |-> caught]
    /\ UNCHANGED <<format, resLine, width, height, data, scanline, y, c, x, rowStart, err>>

\* The files the page is followed with: two pictures and one file for each
\* way a call of renderHDR ends or fails to end.
PageFiles ==
    {PlainFile(1, 1),
     PlainFile(2, 1),
     GoodHeader(ResYX(1, 1)) \o Row(1, 0, 3, "litover"),
     Header(NotRad, FormatLine, ResYX(1, 1)) \o Rows(1, 1, 0, 1, <<>>),
     Header(MagicRadiance, FormatKey \o RleXyze \o LF, ResYX(1, 1)) \o Rows(1, 1, 0, 1, <<>>),
     GoodHeader(ResYX(1, 0)) \o Rows(1, 1, 0, 1, <<>>),
     GoodHeader(ResYX(-1, 1)) \o Rows(1, 1, 0, 1, <<>>),
     GoodHeader(ResYX(1, 1)) \o UnmarkedRow(1, 0, "flat"),
     GoodHeader(ResYX(1, 1)) \o UnmarkedRow(1, 0, "width"),
     SubSeq(PlainFile(1, 1), 1, Len(PlainFile(1, 1)) - 1)}

\* The files the server may answer the fetch of the bundled path with.
BundledFiles ==
    {PlainFile(2, 1),
     Header(NotRad, FormatLine, ResYX(1, 1)) \o Rows(1, 1, 0, 1, <<>>),
     SubSeq(PlainFile(1, 1), 1, Len(PlainFile(1, 1)) - 1)}

\* fetchHDR, lines 81-84: the fetch settles with a response that is ok and
\* its body; renderHDR(buffer, name, true) starts.
FetchResolved ==
    /\ pc = "idle" /\ fetchPending
    /\ UNCHANGED elements
    /\ fetchPending' = FALSE
    /\ \E f \in BundledFiles : enterRender(f, ALLOWED_FILE, TRUE, TRUE)
    /\ UNCHANGED <<pageVars, readers, userLoads, lastLoad>>

\* fetchHDR, lines 81-87: the fetch rejects, the response is not ok, or the
\* body cannot be read; the catch block shows the error.
FetchFailed ==
    /\ pc = "idle" /\ fetchPending
    /\ UNCHANGED elements
    /\ fetchPending' = FALSE
    /\ \E m \in {"HTTP 404", "Failed to fetch"} :
          showError(Text("Could not load bundled HDR", Error(m, <<>>)))
    /\ lastLoad' = "failed"
    /\ UNCHANGED <<decoderVars, readers, userLoads>>

\* The files a user may pick or drop: any content under the allowed name,
\* and a file of another name.
UserFiles ==
    {[name |-> ALLOWED_FILE, content |-> f] : f \in PageFiles}
        \cup {[name |-> "other.hdr", content |-> PlainFile(1, 1)]}

\* handleFile without the test of the file's name.
handleFileAnyName(file) ==
    /\ readers' = Append(readers, file)
    /\ UNCHANGED <<pageVars, lastLoad>>

\* handleFile(file), lines 67-77.
handleFile(file) ==
    IF file.name # ALLOWED_FILE
    THEN /\ showError(Text("Only HDR_041_Path_Ref.hdr is permitted.", NoError))
         /\ lastLoad' = "rejected"
         /\ UNCHANGED readers
    ELSE /\ readers' = Append(readers, file)
         /\ UNCHANGED <<pageVars, lastLoad>>

\* The change listener of the file input, lines 40-43.
FileInputChange ==
    /\ pc = "idle" /\ changeListening /\ userLoads < MaxUserLoads
    /\ UNCHANGED elements
    /\ userLoads' = userLoads + 1
    /\ \E file \in UserFiles : handleFile(file)
    /\ UNCHANGED <<decoderVars, fetchPending>>

\* The drop listener of the drop zone, lines 60-63.
Drop ==
    /\ pc = "idle" /\ dropListening /\ userLoads < MaxUserLoads
    /\ UNCHANGED elements
    /\ userLoads' = userLoads + 1
    /\ \E file \in UserFiles : handleFile(file)
    /\ UNCHANGED <<decoderVars, fetchPending>>

\* readers without its i-th element
without(q, i) == SubSeq(q, 1, i - 1) \o SubSeq(q, i + 1, Len(q))

\* reader.onload, line 74: renderHDR(reader.result, file.name), outside any
\* try block.
ReaderLoad ==
    /\ pc = "idle"
    /\ UNCHANGED elements
    /\ \E i \in 1..Len(readers) :
          /\ readers' = without(readers, i)
          /\ enterRender(readers[i].content, readers[i].name, FALSE, FALSE)
    /\ UNCHANGED <<pageVars, fetchPending, userLoads, lastLoad>>

\* reader.onerror, line 75.
ReaderError ==
    /\ pc = "idle"
    /\ UNCHANGED elements
    /\ \E i \in 1..Len(readers) : readers' = without(readers, i)
    /\ showError(Text("Failed to read the HDR file.", NoError))
    /\ lastLoad' = "failed"
    /\ UNCHANGED <<decoderVars, fetchPending, userLoads>>

(***************************************************************************)
(* parseRadianceHDR, step by step.                                         *)
(***************************************************************************)
\* A failure that returns what has been decoded so far instead of throwing.
returnPartial(e) == pc' = "returned" /\ err' = e

\* throw e
throw(e) == pc' = "thrown" /\ err' = e

\* Lines 156-159.
ReadMagic ==
    /\ pc = "magic"
    /\ UNCHANGED elements
    /\ \E r \in {readLine(bytes, offset)} :
           /\ offset' = r.offset
           /\ IF magicAccepted(r.line)
              THEN pc' = "vars" /\ err' = err
              ELSE throw(Error("Not a Radiance HDR file", <<>>))
    /\ UNCHANGED <<bytes, format, resLine, width, height, data, scanline, y, c, x,
                   rowStart, call, pageVars, flightVars, lastLoad>>

\* Lines 162-167: one turn of the while (true) loop; the turn that reads
\* the empty line leaves the loop and tests format.
ReadVariable ==
    /\ pc = "vars"
    /\ UNCHANGED elements
    /\ \E r \in {readLine(bytes, offset)} :
           /\ offset' = r.offset
           /\ IF r.line # <<>>
              THEN /\ format' = formatAfter(r.line, format)
                   /\ pc' = "vars" /\ err' = err
              ELSE /\ format' = format
                   /\ IF formatAccepted(format)
                      THEN pc' = "resolution" /\ err' = err
                      ELSE throw(Error("Unsupported format: ", format))
    /\ UNCHANGED <<bytes, resLine, width, height, data, scanline, y, c, x,
                   rowStart, call, pageVars, flightVars, lastLoad>>

\* Lines 169-190.
ReadResolution ==
    /\ pc = "resolution"
    /\ UNCHANGED elements
    /\ \E r \in {readLine(bytes, offset)} :
       \E tokens \in {SplitWS(Trim(r.line), <<>>)} :
       \E looped \in {tokenLoop(tokens, 0, Undef, Undef)} :
       \E wh \in {resolutionFallback(r.line, looped)} :
           /\ offset' = r.offset
           /\ resLine' = r.line
           /\ width' = wh.width
           /\ height' = wh.height
           /\ IF resolutionAccepted(wh)
              THEN pc' = "alloc" /\ err' = err
              ELSE throw(Error("Unexpected resolution line: ", r.line))
    /\ UNCHANGED <<bytes, format, data, scanline, y, c, x,
                   rowStart, call, pageVars, flightVars, lastLoad>>

\* Lines 192-194: the two typed arrays; a negative length throws.
Allocate ==
    /\ pc = "alloc"
    /\ UNCHANGED elements
    /\ LET numPixels == width.v * height.v
       IN  IF numPixels * 3 < 0
           THEN throw(RangeError) /\ UNCHANGED <<data, scanline>>
           ELSE /\ data' = zeros(numPixels * 3, Zero)
                /\ IF width.v * 4 < 0
                   THEN throw(RangeError) /\ UNCHANGED scanline
                   ELSE /\ scanline' = zeros(width.v * 4, 0)
                        /\ pc' = "row" /\ err' = err
    /\ UNCHANGED <<bytes, offset, format, resLine, width, height, y, c, x,
                   rowStart, call, pageVars, flightVars, lastLoad>>

\* Lines 196-202 and 238: the head of the row loop and the marker test.
BeginRow ==
    /\ pc = "row"
    /\ UNCHANGED elements
    /\ rowStart' = offset
    /\ IF y >= height.v
       THEN pc' = "returned" /\ UNCHANGED <<offset, err>>
       ELSE IF ~hasMarker(bytes, offset)
       THEN throw(Error("Unsupported scanline format", <<>>)) /\ UNCHANGED offset
       ELSE IF scanWidth(bytes, offset) # width.v
       THEN throw(Error("Scanline width mismatch", <<>>)) /\ UNCHANGED offset
       ELSE offset' = offset + 4 /\ pc' = "span" /\ err' = err
    /\ UNCHANGED <<bytes, format, resLine, width, height, data, scanline, y, c, x,
                   call, pageVars, flightVars, lastLoad>>

\* An offset past the end of the buffer, folded into the model's range.
foldOffset(bs, o) == IF o > Len(bs) + MaxPast THEN Len(bs) ELSE o

\* Lines 204-217: one turn of the while (x < width) loop, with the step to
\* the next plane when the plane is full.
ReadSpan ==
    /\ pc = "span"
    /\ UNCHANGED elements
    /\ LET val == At(bytes, offset)
           nx == x + spanCount(val)
       IN  /\ scanline' = spanWrite(bytes, offset, scanline, width.v, c, x)
           /\ offset' = foldOffset(bytes, offset + spanBytes(val))
           /\ IF nx < width.v
              THEN x' = nx /\ c' = c /\ pc' = "span"
              ELSE /\ x' = 0
                   /\ IF c + 1 < 4
                      THEN c' = c + 1 /\ pc' = "span"
                      ELSE c' = 0 /\ pc' = "convert"
    /\ UNCHANGED <<bytes, format, resLine, width, height, data, y,
                   rowStart, err, call, pageVars, flightVars, lastLoad>>

\* Lines 219-235, and y++.
ConvertRow ==
    /\ pc = "convert"
    /\ UNCHANGED elements
    /\ data' = convertRow(data, scanline, width.v, y)
    /\ y' = y + 1
    /\ pc' = "row"
    /\ UNCHANGED <<bytes, offset, format, resLine, width, height, scanline, c, x,
                   rowStart, err, call, pageVars, flightVars, lastLoad>>

(***************************************************************************)
(* The end of a renderHDR call.                                            *)
(***************************************************************************)
\* Lines 101-128: parseRadianceHDR has returned { width, height, data }.
Render ==
    /\ pc = "returned"
    /\ UNCHANGED elements
    /\ canvas' = [width |-> width.v, height |-> height.v, pixels |-> displayPixels(data)]
    /\ imageShellHidden' = FALSE
    /\ hdrFileInfo' = FileInfo(call.name, width.v, height.v, Len(bytes))
    /\ hdrNote' = Text(IF call.fromBundle THEN "Loaded bundled sample HDR file."
                       ELSE "Loaded local HDR file.", NoError)
    /\ playerShellHidden' = TRUE
    /\ lastLoad' = "rendered"
    /\ ResetDecoder
    /\ UNCHANGED flightVars

\* fetchHDR, lines 85-87: the catch block, for an exception of renderHDR.
CatchInFetch ==
    /\ pc = "thrown" /\ call.caught
    /\ UNCHANGED elements
    /\ showError(Text("Could not load bundled HDR", err))
    /\ lastLoad' = "failed"
    /\ ResetDecoder
    /\ UNCHANGED flightVars

\* An exception of renderHDR in reader.onload: nothing catches it, the
\* handler ends and the page stays as it is.
Uncaught ==
    /\ pc = "thrown" /\ ~call.caught
    /\ UNCHANGED elements
    /\ lastLoad' = "failed"
    /\ ResetDecoder
    /\ UNCHANGED <<pageVars, flightVars>>

\* The steps of parseRadianceHDR.
ParseStep ==
    \/ ReadMagic \/ ReadVariable \/ ReadResolution \/ Allocate
    \/ BeginRow \/ ReadSpan \/ ConvertRow

\* The steps of a running renderHDR call: synchronous code, which runs on.
RenderStep == ParseStep \/ Render \/ CatchInFetch \/ Uncaught

Next ==
    \/ RunScript
    \/ FetchResolved \/ FetchFailed
    \/ FileInputChange \/ Drop
    \/ ReaderLoad \/ ReaderError
    \/ RenderStep

Spec == Init /\ [][Next]_vars

\* The script and a running call are not suspended: the next step is taken.
FairSpec == Spec /\ WF_vars(RunScript \/ RenderStep)

(***************************************************************************)
(* parseRadianceHDR on its own: the call of line 100 in reader.onload, for *)
(* every file of Files, from the page's first file event.                  *)
(***************************************************************************)
ParserInit ==
    /\ bytes \in Files /\ offset = 0 /\ pc = "magic" /\ format = <<>> /\ resLine = <<>>
    /\ width = Undef /\ height = Undef /\ data = <<>> /\ scanline = <<>>
    /\ y = 0 /\ c = 0 /\ x = 0 /\ rowStart = 0 /\ err = NoError
    /\ call = [name |-> ALLOWED_FILE, fromBundle |-> FALSE, caught |-> FALSE]
    /\ canvas = InitialCanvas
    /\ hdrFileInfo = NoInfo
    /\ hdrNote = NoText
    /\ imageShellHidden = TRUE
    /\ playerShellHidden \in BOOLEAN
    /\ fetchPending = TRUE
    /\ readers = <<>>
    /\ userLoads = 1
    /\ lastLoad = "none"
    /\ elements = [fileInput |-> TRUE, dropzone |-> TRUE]

ParserSpec == ParserInit /\ [][ParseStep]_vars

FairParserSpec == ParserSpec /\ WF_vars(ParseStep)

(***************************************************************************)
(* The claims.                                                             *)
(***************************************************************************)
\* The span at offset would carry the column past width.
SpanOverruns == x + spanCount(At(bytes, offset)) > width.v

\* The span's control byte or one of its data bytes lies at or beyond the
\* end of the buffer.
SpanExhausted ==
    \/ At(bytes, offset) = undefined
    \/ offset + spanBytes(At(bytes, offset)) > Len(bytes)

\* C1: in the new-format decode of any row and plane, a run or literal span
\* that would carry the column past width, or a control or data byte read at
\* or beyond the end of the buffer, makes the decode fail with an error; no
\* byte is written for that span.
C1_OverrunFails ==
    [][(pc = "span" /\ (SpanOverruns \/ SpanExhausted))
          => (pc' = "thrown" /\ err' # NoError /\ scanline' = scanline)]_vars

\* C2: for every input the decode call terminates: it returns an image or
\* fails with an error.
C2_Terminates == <>(pc \in {"returned", "thrown"})

\* The four bytes at offset are the new-format marker: 2, 2 and the header's
\* width as a 16-bit big-endian value.
MarkerAtOffset ==
    /\ At(bytes, offset) = 2
    /\ At(bytes, offset + 1) = 2
    /\ At(bytes, offset + 2) # undefined
    /\ At(bytes, offset + 3) # undefined
    /\ At(bytes, offset + 2) * 256 + At(bytes, offset + 3) = width.v

\* The decoder stands at the head of a row that is still to be decoded.
AtRowHead == pc = "row" /\ y < height.v

C4_OrderIndependent ==
    \A w, h \in Dims :
        (pc \notin {"magic", "vars", "resolution"} /\ resLine \in {ResYX(h, w), ResXY(w, h)})
            => (width = Num(w) /\ height = Num(h))

\* The line "+X 3 -Y 2" has given width 3 and height 2 and the picture has
\* been decoded with them.
C4_Witness ==
    /\ pc = "returned" /\ resLine = ResXY(3, 2)
    /\ width = Num(3) /\ height = Num(2) /\ Len(data) = 18

\* The resolution line has been read (line 169 has run).
ResolutionRead ==
    \/ pc \in {"alloc", "row", "span", "convert", "returned"}
    \/ /\ pc = "thrown"
       /\ err.message \notin {"Not a Radiance HDR file", "Unsupported format: "}

\* The line has a token with the axis letter ch that is followed by a
\* positive number.
HasExtent(line, ch) ==
    LET tokens == SplitWS(Trim(line), <<>>)
    IN  \E i \in 1..(Len(tokens) - 1) :
            /\ IncludesUpper(tokens[i], ch)
            /\ parseInt(tokens[i + 1]).t = "number"
            /\ parseInt(tokens[i + 1]).v > 0

\* The line lacks an X or a Y axis token with a positive extent.
BadResolutionLine(line) == ~HasExtent(line, 88) \/ ~HasExtent(line, 89)

\* C5: a resolution line that lacks an identifiable X or Y axis token, or
\* whose extent is zero, negative or not a number, makes the parse fail with
\* the resolution error that carries the line's text; no scanline byte is
\* decoded and no output buffer is allocated.
C5_BadResolutionFails ==
    (ResolutionRead /\ BadResolutionLine(resLine))
        => /\ pc \notin {"row", "span", "convert", "returned"}
           /\ pc = "thrown" => err = Error("Unexpected resolution line: ", resLine)
           /\ data = <<>>
           /\ scanline = <<>>

\* The lines of the variable block of the file bs from offset o on: the
\* trimmed lines up to the first empty one.
RECURSIVE BlockLines(_, _)
BlockLines(bs, o) ==
    LET r == readLine(bs, o)
    IN  IF r.line = <<>> THEN <<>> ELSE <<r.line>> \o BlockLines(bs, r.offset)

\* The variable block of the file being decoded.
VariableBlock == BlockLines(bytes, readLine(bytes, 0).offset)

\* The header has been accepted up to the end of the variable block (line
\* 167 has not thrown).
FormatPassed ==
    \/ pc \in {"resolution", "alloc", "row", "span", "convert", "returned"}
    \/ /\ pc = "thrown"
       /\ err.message \notin {"Not a Radiance HDR file", "Unsupported format: "}

\* C6: a header is accepted only when the value of a FORMAT line of its
\* variable block is exactly "32-bit_rle_rgbe"; a block with no FORMAT line
\* or with another value fails with the unsupported-format error that names
\* the value found.
C6_FormatExact ==
    /\ FormatPassed =>
          \E i \in 1..Len(VariableBlock) : VariableBlock[i] = FormatKey \o RleRgbe
    /\ (pc = "thrown" /\ err.message = "Unsupported format: ") => err.arg = format

\* The first line of the file being decoded is "NOTRAD".
FirstLineNotRad == StartsWith(bytes, NotRad \o LF)

\* What C7 says of every state: the file whose first line is "NOTRAD" gets
\* no further than the magic test, fails there with the format error, and
\* no buffer has been allocated; and a record is returned only by a decode
\* that has not failed and has decoded every row.
C7_NoPartialState ==
    /\ (pc # "idle" /\ FirstLineNotRad)
          => /\ pc \in {"magic", "thrown"}
             /\ pc = "thrown" => err = Error("Not a Radiance HDR file", <<>>)
             /\ data = <<>> /\ scanline = <<>>
    /\ pc = "returned"
          => (err = NoError /\ y = height.v /\ Len(data) = width.v * height.v * 3)
    /\ err # NoError => pc = "thrown"

\* What C7 says of every step: a running decode leaves the page alone, a
\* failed call writes no pixel to the canvas (the canvas keeps what it has or
\* is emptied by the caller), and the canvas gets pixels from a returned
\* record alone.
C7_NoPartialStep ==
    /\ pc \in {"magic", "vars", "resolution", "alloc", "row", "span", "convert"}
          => pageVars' = pageVars
    /\ pc = "thrown" => (canvas' = canvas \/ (canvas'.pixels = <<>> /\ canvas'.width = 0))
    /\ (canvas' # canvas /\ canvas'.pixels # <<>>)
          => (pc = "returned" /\ err = NoError)

\* C7: any stage failure aborts the whole operation with no partial output:
\* when the decode fails no image record is returned and the render step
\* writes nothing to the canvas; a file whose first line is "NOTRAD" fails
\* with the format error before any buffer is written.
C7_NoPartialOutput == []C7_NoPartialState /\ [][C7_NoPartialStep]_vars

\* A decode has failed in its scanline data, with its buffers allocated,
\* while the canvas shows the picture of an earlier load.
C7_Witness ==
    /\ pc = "thrown" /\ err = Error("Unsupported scanline format", <<>>)
    /\ data # <<>>
    /\ canvas.pixels # <<>>

\* The text of hdrNote is one of the error messages.
ErrorShown ==
    hdrNote.text \in {"Could not load bundled HDR", "Failed to read the HDR file.",
                   "Only HDR_041_Path_Ref.hdr is permitted."}

\* C8: whenever the most recent load attempt has ended in a failure, the
\* page shows an error message, the canvas is cleared to 0 by 0 and the file
\* info text is empty.
C8_FailureClears ==
    (pc = "idle" /\ lastLoad = "failed")
        => /\ ErrorShown
           /\ canvas.width = 0 /\ canvas.height = 0 /\ canvas.pixels = <<>>
           /\ hdrFileInfo = NoInfo

\* The well-formed files of a w by h picture: an accepted magic line, the
\* FORMAT line, the resolution line in either order, and h rows each of
\* whose planes is encoded so as to fill exactly w columns.
WellFormedFiles ==
    UNION {{[width |-> wh[1], height |-> wh[2], file |-> GoodHeader(res) \o rows] :
              res \in {ResYX(wh[2], wh[1]), ResXY(wh[1], wh[2])},
              rows \in {Rows(wh[1], wh[2], 0, r, Row(wh[1], r, p, k)) :
                          r \in 0..(wh[2] - 1), p \in 0..3, k \in GoodKinds}} :
           wh \in Dims \X Dims}

\* What C9 says of every state of the decode of a well-formed file: it has
\* not failed, it has not run out of bytes, and the record it returns has
\* the header's width and height and width * height * 3 samples.
C9_WellFormedState ==
    \A wf \in WellFormedFiles :
        bytes = wf.file
            => /\ pc # "thrown" /\ err = NoError
               /\ pc = "span" => At(bytes, offset) # undefined
               /\ pc = "returned"
                    => /\ width = Num(wf.width) /\ height = Num(wf.height)
                       /\ Len(data) = wf.width * wf.height * 3

\* C9: for every input with an accepted magic line, FORMAT=32-bit_rle_rgbe,
\* a resolution line with positive width and height in either order and
\* well-formed scanline data for height rows, the decode succeeds and
\* returns a record with the header's width and height and exactly
\* width * height * 3 samples.
C9_WellFormedDecodes ==
    /\ []C9_WellFormedState
    /\ (\E wf \in WellFormedFiles : bytes = wf.file) => <>(pc = "returned")

\* The 3 by 2 picture whose second row has a zero control byte in its blue
\* plane has been decoded.
C9_Witness ==
    /\ bytes = GoodHeader(ResYX(2, 3)) \o Rows(3, 2, 0, 1, Row(3, 1, 2, "zero"))
    /\ pc = "returned"
    /\ width = Num(3) /\ height = Num(2) /\ Len(data) = 18

\* The run-length expansion of one plane, as C10 words it: from offset o of
\* bs, control bytes are read until n values are had; a control byte above
\* 128 and its data byte give that many copies, a control byte up to 128
\* gives the bytes that follow it.  ok is FALSE when a span would give more
\* than n values or needs a byte the buffer does not have.
NoPlane == [plane |-> <<>>, next |-> 0, ok |-> FALSE]

RECURSIVE Expansion(_, _, _)
Expansion(bs, o, n) ==
    IF n = 0 THEN [plane |-> <<>>, next |-> o, ok |-> TRUE]
    ELSE IF o >= Len(bs) THEN NoPlane
    ELSE LET cb == bs[o + 1]
             len == IF cb > 128 THEN cb - 128 ELSE cb
             used == IF cb > 128 THEN 2 ELSE 1 + cb
         IN  IF len > n \/ o + used > Len(bs) THEN NoPlane
             ELSE LET rest == Expansion(bs, o + used, n - len)
                      span == IF cb > 128 THEN [i \in 1..len |-> bs[o + 2]]
                              ELSE SubSeq(bs, o + 2, o + 1 + len)
                  IN  [plane |-> span \o rest.plane, next |-> rest.next, ok |-> rest.ok]

\* The expansions of the four planes of the row whose marker is at offset o.
RowExpansion(bs, o, w) ==
    LET r == Expansion(bs, o + 4, w)
        g == Expansion(bs, r.next, w)
        b == Expansion(bs, g.next, w)
        e == Expansion(bs, b.next, w)
    IN  [planes |-> r.plane \o g.plane \o b.plane \o e.plane,
         next |-> e.next,
         ok |-> r.ok /\ g.ok /\ b.ok /\ e.ok]

\* C10: when the four planes of a row have been read and their encoding is
\* well formed, each plane is the concatenation of the expansions of its
\* spans (c - 128 copies of d for a control byte c > 128, the c bytes that
\* follow for a control byte c <= 128) and the offset stands after them; and
\* pixel x of a converted row has its R, G, B and E bytes from column x of
\* the four planes, in that order.
C10_RunLengthDecode ==
    /\ (pc = "convert" /\ RowExpansion(bytes, rowStart, width.v).ok)
          => /\ scanline = RowExpansion(bytes, rowStart, width.v).planes
             /\ offset = RowExpansion(bytes, rowStart, width.v).next
    /\ (pc = "row" /\ y > 0)
          => \A col \in 0..(width.v - 1) : \A ch \in 0..2 :
                data[((y - 1) * width.v + col) * 3 + ch + 1]
                    = radiance(scanline[ch * width.v + col + 1],
                               scanline[3 * width.v + col + 1])

\* A row of width 3 whose red plane is the run 131, d and whose other planes
\* are literals of three bytes has been read into the scanline.
C10_Witness ==
    /\ pc = "convert" /\ width = Num(3)
    /\ At(bytes, rowStart + 4) = 131 /\ At(bytes, rowStart + 6) = 3
    /\ RowExpansion(bytes, rowStart, 3).ok
    /\ SubSeq(scanline, 1, 3) = <<At(bytes, rowStart + 5), At(bytes, rowStart + 5),
                                  At(bytes, rowStart + 5)>>
    /\ SubSeq(scanline, 4, 6) = SubSeq(bytes, rowStart + 8, rowStart + 10)

\* The row at offset begins with the marker bytes 2, 2 and its next two
\* bytes do not form, big-endian, the header's width.
OtherWidthAtOffset ==
    /\ At(bytes, offset) = 2
    /\ At(bytes, offset + 1) = 2
    /\ ~MarkerAtOffset

\* C11: a row that begins with the marker bytes (2, 2) but whose next two
\* bytes, as a 16-bit big-endian value, differ from the header's width makes
\* the decode fail with the scanline width mismatch error; the failed decode
\* yields no image and writes no sample.
C11_WidthMismatchFails ==
    /\ [][(AtRowHead /\ OtherWidthAtOffset)
            => /\ pc' = "thrown"
               /\ err' = Error("Scanline width mismatch", <<>>)
               /\ data' = data]_vars
    /\ [](err = Error("Scanline width mismatch", <<>>) => pc = "thrown")

\* The second row of a picture declares the width 256 + w and the decode has
\* failed on it.
C11_Witness ==
    /\ pc = "thrown" /\ y = 1
    /\ err = Error("Scanline width mismatch", <<>>)
    /\ At(bytes, offset) = 2 /\ At(bytes, offset + 1) = 2
    /\ At(bytes, offset + 2) = 1 /\ At(bytes, offset + 3) = width.v

\* The sample s, kept as s.m * 2^s.p, has the value mant * 2^ex.
HasValue(s, mant, ex) ==
    IF mant = 0 THEN s = Zero
    ELSE s.p >= ex /\ s.m * 2^(s.p - ex) = mant

\* C12: in a converted row, a pixel whose exponent byte E is 0 has the
\* samples (0, 0, 0) whatever its R, G and B bytes are, and a pixel with
\* E # 0 has, for each channel, the sample mantissa * 2^(E - 128) / 256
\* exactly, however large.
C12_ExponentZero ==
    (pc = "row" /\ y > 0)
        => \A col \in 0..(width.v - 1) : \A ch \in 0..2 :
              LET e == scanline[3 * width.v + col + 1]
                  mant == scanline[ch * width.v + col + 1]
                  s == data[((y - 1) * width.v + col) * 3 + ch + 1]
              IN  IF e = 0 THEN s = Zero ELSE HasValue(s, mant, e - 136)

\* A pixel with E = 0 and R = 255 has been converted to zeros.
C12_Witness ==
    /\ pc = "returned" /\ width = Num(1) /\ height = Num(1)
    /\ scanline = <<255, 1, 128, 0>>
    /\ data = <<Zero, Zero, Zero>>

\* What C13 says of the canvas in every state: when it shows a picture, the
\* picture has width * height pixels of four bytes each (width * height * 4
\* bytes), every r, g and b byte lies in 0..255 and every alpha byte is 255.
C13_DisplayShape ==
    canvas.pixels # <<>>
        => /\ Len(canvas.pixels) = canvas.width * canvas.height
           /\ \A i \in 1..Len(canvas.pixels) :
                 /\ Len(canvas.pixels[i]) = 4
                 /\ \A k \in 1..3 : canvas.pixels[i][k] \in 0..255
                 /\ canvas.pixels[i][4] = 255

\* What C13 says of the step that draws a decoded image: the canvas takes
\* the image's width and height and one quadruple per radiance triple, the
\* i-th quadruple from the i-th triple.
C13_DisplayOrder ==
    (pc = "returned" /\ pc' = "idle")
        => /\ canvas'.width = width.v /\ canvas'.height = height.v
           /\ Len(canvas'.pixels) * 3 = Len(data)
           /\ \A i \in 1..Len(canvas'.pixels) : \A k \in 1..3 :
                 canvas'.pixels[i][k] = displayByte(data[3 * (i - 1) + k])

\* C13: the display image produced from any decoded image has exactly
\* width * height * 4 bytes, one (r, g, b, a) quadruple per radiance triple
\* in the same pixel order; every r, g, b byte lies in [0, 255] and every
\* alpha byte is 255.
C13_DisplayImage == []C13_DisplayShape /\ [][C13_DisplayOrder]_vars

\* The 2 by 1 picture is on the canvas, its two pixels different.
C13_Witness ==
    /\ lastLoad = "rendered" /\ pc = "idle"
    /\ canvas.width = 2 /\ canvas.height = 1
    /\ Len(canvas.pixels) = 2
    /\ canvas.pixels[1] # canvas.pixels[2]

\* What C14 says of every state: every FileReader that is reading reads a
\* file named HDR_041_Path_Ref.hdr, and so is every file being decoded.
C14_AllowedOnly ==
    /\ \A i \in 1..Len(readers) : readers[i].name = ALLOWED_FILE
    /\ pc \notin {"script", "idle"} => call.name = ALLOWED_FILE

\* What C14 says of every file picker or drop event: either its file is
\* named HDR_041_Path_Ref.hdr and a FileReader starts to read it, or no read
\* is started, the decoder and renderer are not invoked and the error
\* message is displayed.
C14_EventStep ==
    userLoads' = userLoads + 1
        => \/ /\ \E f \in UserFiles : f.name = ALLOWED_FILE /\ readers' = Append(readers, f)
              /\ pageVars' = pageVars
           \/ /\ readers' = readers
              /\ decoderVars' = decoderVars /\ pc = "idle"
              /\ canvas'.pixels = <<>>
              /\ hdrNote' = Text("Only HDR_041_Path_Ref.hdr is permitted.", NoError)
              /\ imageShellHidden' = FALSE

\* C14: only a file named exactly HDR_041_Path_Ref.hdr is ever read and
\* decoded from a user action: for a file picker or drop event whose file
\* has another name no FileReader read is started, the decoder and renderer
\* are not invoked for the file, and an error message is displayed.
C14_OnlyAllowedFile == []C14_AllowedOnly /\ [][C14_EventStep]_vars

\* A file of another name has been picked or dropped: the message is shown
\* and nothing is being read or decoded.
C14_Witness ==
    /\ userLoads = 1 /\ lastLoad = "rejected"
    /\ readers = <<>> /\ pc = "idle"
    /\ hdrNote = Text("Only HDR_041_Path_Ref.hdr is permitted.", NoError)

\* C15: after a file of a wrong name has been dropped, the rejection path
\* has displayed the error text and the legacy video shell (playerShell) is
\* hidden.
C15_RejectionHidesVideo ==
    lastLoad = "rejected"
        => /\ hdrNote = Text("Only HDR_041_Path_Ref.hdr is permitted.", NoError)
           /\ playerShellHidden

\* The page contains neither #fileInput nor #dropzone.
NoUploadElements == ~elements.fileInput /\ ~elements.dropzone

\* The auto-load of line 37 has been started: its fetch is pending, or its
\* renderHDR call is running, or it has ended.
AutoLoadStarted == fetchPending \/ pc \notin {"script", "idle"} \/ lastLoad # "none"

\* C16: in a page that contains no #fileInput and no #dropzone element the
\* script's initialisation reaches the auto-load step: once the script has
\* run, the bundled file's fetch has been started, so that the file can be
\* rendered and the note can come to read 'Loaded bundled sample HDR file.'.
C16_AutoLoadWithoutUploadUI ==
    (pc # "script" /\ NoUploadElements) => AutoLoadStarted

\* The offset of the start of the line that ends just before offset e: the
\* offset after the last newline before e, or 0.
RECURSIVE LineStart(_, _)
LineStart(bs, e) == IF e = 0 \/ bs[e] = 10 THEN e ELSE LineStart(bs, e - 1)

\* The magic line, the FORMAT value and the resolution line have been
\* validated: the first line, trimmed, begins with "#?RADIANCE" or "#?RGBE",
\* the format is "32-bit_rle_rgbe", and width and height are non-zero numbers.
HeaderValidated ==
    /\ \/ StartsWith(readLine(bytes, 0).line, MagicRadiance)
       \/ StartsWith(readLine(bytes, 0).line, MagicRGBE)
    /\ format = RleRgbe
    /\ width.t = "number" /\ width.v # 0
    /\ height.t = "number" /\ height.v # 0

\* What C17 says of every state: the parse is past the header only with a
\* validated header; before the resolution stage no extent is set and before
\* the end of the header no buffer is allocated; and the scanline decoder has
\* started row 0 at the byte after the newline that ends the resolution line.
C17_StageState ==
    /\ pc \in {"alloc", "row", "span", "convert", "returned"} => HeaderValidated
    /\ pc \in {"magic", "vars", "resolution"}
          => (resLine = <<>> /\ width = Undef /\ height = Undef /\ data = <<>>)
    /\ pc = "magic" => (offset = 0 /\ format = <<>>)
    /\ (pc = "span" /\ y = 0)
          => /\ At(bytes, rowStart - 1) = 10
             /\ Trim(SubSeq(bytes, LineStart(bytes, rowStart - 1) + 1, rowStart - 1)) = resLine

\* What C17 says of every step: the stages follow one another in the order
\* magic, variables, resolution, done (the buffers' allocation), scanlines;
\* a failure is final, no step follows it; and the step that fails after the
\* header consumes no byte.
C17_StageStep ==
    /\ pc = "magic" => pc' \in {"vars", "thrown"}
    /\ pc = "vars" => pc' \in {"vars", "resolution", "thrown"}
    /\ pc = "resolution" => pc' \in {"alloc", "thrown"}
    /\ pc = "alloc" => pc' \in {"row", "thrown"}
    /\ pc \in {"row", "span", "convert"} => pc' \in {"row", "span", "convert", "returned", "thrown"}
    /\ pc # "thrown"
    /\ (pc \in {"alloc", "row"} /\ pc' = "thrown") => offset' = offset
    /\ pc \in {"magic", "vars", "resolution", "alloc"} => scanline' \in {<<>>, zeros(width'.v * 4, 0)}

\* C17: the header parser passes through its stages strictly in the order
\* MAGIC, VARIABLES, RESOLUTION, DONE, and FAILED is absorbing: once a stage
\* fails no later stage runs and no further byte is consumed; no scanline
\* byte is read unless the magic line, the FORMAT value and the resolution
\* line have all been validated; the scanline decoder starts at exactly the
\* byte after the resolution line's terminator.
C17_StageOrder == []C17_StageState /\ [][C17_StageStep]_vars

\* The scanline decoder has started on the file whose variable block is
\* EXPOSURE=1 and the FORMAT line.
C17_Witness ==
    /\ pc = "span" /\ y = 0 /\ c = 0 /\ x = 0
    /\ bytes = Header(MagicRadiance, Exposure \o LF \o FormatLine, ResYX(1, 1))
                  \o Rows(1, 1, 0, 1, <<>>)
    /\ offset = Len(Header(MagicRadiance, Exposure \o LF \o FormatLine, ResYX(1, 1))) + 4

\* The scanline buffer that the spans from offset o on give when they are
\* read into the buffer sl from plane cc, column xx on, up to the end of the
\* fourth plane (or up to the end of the input).
RECURSIVE PlanesFrom(_, _, _, _, _, _)
PlanesFrom(bs, o, sl, w, cc, xx) ==
    IF cc >= 4 \/ At(bs, o) = undefined THEN sl
    ELSE LET nx == xx + spanCount(At(bs, o))
         IN  PlanesFrom(bs, o + spanBytes(At(bs, o)), spanWrite(bs, o, sl, w, cc, xx), w,
                        IF nx < w THEN cc ELSE cc + 1,
                        IF nx < w THEN nx ELSE 0)

\* C18: scanline plane bytes are not retained across rows: when the planes
\* of row y have been read, the working scanline buffer is what the bytes of
\* row y alone give in a fresh, zero-filled buffer, so that nothing left in
\* it by row y - 1 or by another plane is read into the samples of row y.
C18_NotRetained ==
    pc = "convert"
        => scanline = PlanesFrom(bytes, rowStart + 4, zeros(width.v * 4, 0), width.v, 0, 0)

\* The second row of a 2 by 2 picture, whose red plane is a run of zeros,
\* has been read over the first row's bytes.
C18_Witness ==
    /\ pc = "convert" /\ y = 1
    /\ bytes = GoodHeader(ResYX(2, 2)) \o Rows(2, 2, 0, 1, Row(2, 1, 0, "runzero"))
    /\ SubSeq(scanline, 1, 2) = <<0, 0>>
    /\ data[1] # Zero

\* -1, 0 or 1 as n / d is below, equal to or above g * 255, where g is the
\* gamma-encoded value of the tone-mapped sample s: g = 0 for a sample of 0,
\* g = 1 when tonemapACES(s) >= 1, and else g = f^(5/11) for
\* f = tonemapACES(s), so that n / d <= 255 * g exactly when
\* n^11 * den^5 <= (255 * d)^11 * num^5.  (n >= 0, d > 0)
CompareScaled(n, d, s) ==
    LET f == tonemapACES(s)
    IN  IF f.num = <<>> THEN (IF n = 0 THEN 0 ELSE 1)
        ELSE IF BigCmp(f.num, f.den) >= 0
        THEN (IF n < 255 * d THEN -1 ELSE IF n = 255 * d THEN 0 ELSE 1)
        ELSE BigCmp(BigMul(BigPow(BigOf(n), 11), BigPow(f.den, 5)),
                    BigMul(BigPow(BigOf(255 * d), 11), BigPow(f.num, 5)))

\* b is floor(g * 255): b <= g * 255 < b + 1.
IsFloor(s, b) ==
    /\ b \in 0..255
    /\ CompareScaled(b, 1, s) <= 0
    /\ CompareScaled(b + 1, 1, s) > 0 \/ b = 255

\* b is g * 255 rounded to the nearest integer, a tie to the even one:
\* b - 1/2 <= g * 255 <= b + 1/2, with equality for an even b alone.
IsNearest(s, b) ==
    /\ b \in 0..255
    /\ b > 0 => CompareScaled(2 * b - 1, 2, s) <= (IF b % 2 = 0 THEN 0 ELSE -1)
    /\ CompareScaled(2 * b + 1, 2, s) >= (IF b % 2 = 0 THEN 0 ELSE 1) \/ b = 255

\* C19 as claimed: each r, g, b byte of the picture that is drawn is
\* floor(g * 255) clamped to [0, 255]: the fractional part of g * 255 is
\* discarded, never rounded up.
C19_FloorByte ==
    [][(pc = "returned" /\ pc' = "idle")
          => \A i \in 1..Len(canvas'.pixels) : \A k \in 1..3 :
                IsFloor(data[3 * (i - 1) + k], canvas'.pixels[i][k])]_vars

\* C19 as amended: each r, g, b byte of the picture that is drawn is g * 255
\* rounded to the nearest integer (a tie to the even one) and clamped to
\* [0, 255], as the store into the ImageData's Uint8ClampedArray does.
C19_NearestByte ==
    [][(pc = "returned" /\ pc' = "idle")
          => \A i \in 1..Len(canvas'.pixels) : \A k \in 1..3 :
                IsNearest(data[3 * (i - 1) + k], canvas'.pixels[i][k])]_vars

\* A picture is on the canvas one of whose bytes is above floor(g * 255):
\* the red sample 17 * 2^(-9) of PlainFile(1, 1) is drawn as a byte b with
\* g * 255 < b.
C19_Witness ==
    /\ lastLoad = "rendered" /\ pc = "idle" /\ Len(canvas.pixels) >= 1
    /\ \E k \in 1..3 :
          LET s == radiance(PlaneVal(k - 1, 0, 0), PlaneVal(3, 0, 0))
          IN  CompareScaled(canvas.pixels[1][k], 1, s) > 0


\* The note of a picture the user has picked or dropped.
LocalNote == Text("Loaded local HDR file.", NoError)

\* renderHDR ends for the bundled file while the page shows a picture the
\* user has loaded and no FileReader is reading any more: the fetch was
\* started by the script, before any file event, so that the two loads were
\* in flight together, and the user's load was the first to complete.
BundledCompletesLast ==
    /\ pc = "returned" /\ pc' = "idle"
    /\ call.fromBundle
    /\ hdrNote = LocalNote
    /\ readers = <<>>

\* C20: when the bundled auto-load and a later load of an allowed file by
\* the user are in flight together, then in whichever order the fetch and
\* the FileReader complete, once both have completed successfully the
\* canvas, the file info and the note show the user's load ('Loaded local
\* HDR file.'), not the bundled one.  When the user's load is the last to
\* complete, renderHDR writes exactly that; the remaining order is the
\* bundled load completing after the user's picture is shown.
C20_UserLoadWins ==
    [][BundledCompletesLast
          => /\ hdrNote' = LocalNote
             /\ hdrFileInfo' = hdrFileInfo
             /\ canvas' = canvas]_vars

=============================================================================
